---- MODULE Spec2Model ----
(***************************************************************************)
(* Vehicle-Diagnostic-Analysis backend (src/backend/server.js): the        *)
(* keyword matcher advancedKeywordSearch over the static vehicleKeywords   *)
(* list and the POST /process-recording handler that reports its result.   *)
(* JavaScript strings are TLA+ strings; a JavaScript value that may not be *)
(* a string is a record [type |-> ..., val |-> ...].                       *)
(***************************************************************************)
EXTENDS Integers, Sequences, FiniteSets, TLC

(* ---------------------------- bounds ----------------------------------- *)
\* a transcript is the concatenation of at most MaxPieces pieces
MaxPieces == 2

\* an AI response is the concatenation of at most MaxParts pieces
MaxParts == 3

\* a classified transcript names at most MaxRun consecutive list phrases
MaxRun == 8

\* requests the server receives, numbered in the order of their arrival
MaxRequests == 2

\* the last millisecond Date.now() reaches while the requests are served
MaxClock == 1

\* GET /download requests made for the converted recording
MaxDownloads == 2

\* calls of startRecording the user makes in the browser app
MaxSessions == 2

\* the recordingTime at which the timer callback calls stopRecording
\* (App.jsx line 143)
AutoStopAt == 90

(* ---------------------- static keyword list ---------------------------- *)
vehicleKeywords == <<
    "brake pedal", "brake pads", "brake discs", "brake fluid", "brake lines",
    "brake noise", "brake vibration", "brake failure", "brake warning",
    "engine overheating", "engine noise", "engine failure", "engine stalling",
    "engine misfire", "engine vibration", "engine smoking", "engine knocking",
    "motor starter", "motor mount",
    "battery dead", "battery drain", "alternator failure", "starter motor",
    "electrical short", "fuse blown", "wiring issue", "light failure",
    "flat tire", "tire pressure", "tire wear", "wheel alignment", "wheel bearing",
    "rim damage", "tire vibration",
    "suspension noise", "suspension failure", "shock absorbers", "strut failure",
    "spring broken", "control arm", "ball joint", "bushing worn",
    "steering wheel", "power steering", "steering vibration", "alignment issue",
    "car pulling", "uneven ride", "body roll",
    "transmission slipping", "gear shifting", "clutch problem", "transmission fluid",
    "gear noise", "shifting difficulty",
    "coolant leak", "overheating issue", "radiator problem", "thermostat failure",
    "water pump", "cooling fan",
    "exhaust leak", "muffler problem", "catalytic converter", "exhaust noise",
    "fuel pump", "fuel injector", "fuel filter", "fuel leak",
    "side mirror", "windshield crack", "door lock", "window regulator",
    "seat belt", "air conditioning", "heater problem",
    "oil leak", "power loss", "check engine", "warning light", "emission problem", "suspension problem", "suspension issue"
>>

(* ------------------------ string primitives ---------------------------- *)
LowerAlpha == "abcdefghijklmnopqrstuvwxyz"
UpperAlpha == "ABCDEFGHIJKLMNOPQRSTUVWXYZ"
Digits == "0123456789"
Underscore == "_"

CharAt(s, i) == SubSeq(s, i, i)

Chars(s) == { CharAt(s, i) : i \in 1..Len(s) }

\* String.prototype.toLowerCase on one UTF-16 unit of the modelled alphabet
toLowerChar ==
    [c \in Chars(UpperAlpha) |->
        CharAt(LowerAlpha, CHOOSE i \in 1..Len(UpperAlpha) : CharAt(UpperAlpha, i) = c)]

\* the units are mapped one by one, left to right (evaluated by halves)
RECURSIVE toLowerCase(_)
toLowerCase(s) ==
    IF Len(s) = 0 THEN s
    ELSE IF Len(s) = 1
         THEN (IF s \in DOMAIN toLowerChar THEN toLowerChar[s] ELSE s)
         ELSE LET h == Len(s) \div 2
              IN  toLowerCase(SubSeq(s, 1, h)) \o toLowerCase(SubSeq(s, h + 1, Len(s)))

\* String.prototype.includes(search): search occurs at some offset
includes(s, search) ==
    \E i \in 0..(Len(s) - Len(search)) : SubSeq(s, i + 1, i + Len(search)) = search

(* ----------------- the regular expression \bkeyword\b, flags gi -------- *)
\* \w of a JavaScript regular expression without the u flag
WordChars == Chars(LowerAlpha) \cup Chars(UpperAlpha) \cup Chars(Digits) \cup Chars(Underscore)

IsWordChar(c) == c \in WordChars

\* \b at offset p of s (between s[p] and s[p+1]; outside the string is not \w)
WordBoundary(s, p) ==
    LET before == p >= 1 /\ IsWordChar(CharAt(s, p))
        after  == p + 1 <= Len(s) /\ IsWordChar(CharAt(s, p + 1))
    IN  before # after

\* offsets at which new RegExp(`\\b${lowerKeyword}\\b`, 'gi') matches s;
\* String.prototype.match returns null exactly when there is none.
\* The i flag compares the case-folded units of pattern and subject.
wordRegexMatches(s, lowerKeyword) ==
    LET n == Len(lowerKeyword)
        foldedSubject == toLowerCase(s)
        foldedPattern == toLowerCase(lowerKeyword)
    IN  { i \in 0..(Len(s) - n) :
            /\ SubSeq(foldedSubject, i + 1, i + n) = foldedPattern
            /\ WordBoundary(s, i)
            /\ WordBoundary(s, i + n) }

(* --------------------------- JavaScript values ------------------------- *)
Str(s) == [type |-> "string", val |-> s]
NULL == [type |-> "null", val |-> "null"]
UNDEFINED == [type |-> "undefined", val |-> "undefined"]
Num(digits) == [type |-> "number", val |-> digits]

\* outcome of a call: a returned value or a thrown error
Returned(v) == [kind |-> "return", value |-> v]
Threw(name) == [kind |-> "throw", error |-> name]
NotCalled == [kind |-> "none"]

(* ------------------------ advancedKeywordSearch ------------------------ *)
\* obj.key = true on an object whose own string keys keep insertion order
SetKeyFront(keys, key) ==
    IF \E i \in 1..Len(keys) : keys[i] = key THEN keys ELSE <<key>> \o keys

SetKey(keys, key) ==
    IF \E i \in 1..Len(keys) : keys[i] = key THEN keys ELSE Append(keys, key)

\* the chain of if statements of lines 69-83, in source order
categoryRules == <<
    [category |-> "brake",        substrings |-> {"brake"}],
    [category |-> "tire",         substrings |-> {"tire", "wheel"}],
    [category |-> "engine",       substrings |-> {"engine", "motor"}],
    [category |-> "electrical",   substrings |-> {"electrical", "battery", "light"}],
    [category |-> "transmission", substrings |-> {"transmission", "gear", "clutch"}]
>>

RECURSIVE applyCategoryRules(_, _, _)
applyCategoryRules(keys, lowerKeyword, r) ==
    IF r > Len(categoryRules) THEN keys
    ELSE LET rule == categoryRules[r]
             hit  == \E sub \in rule.substrings : includes(lowerKeyword, sub)
         IN  applyCategoryRules(IF hit THEN SetKey(keys, rule.category) ELSE keys,
                                lowerKeyword, r + 1)

\* the condition of line 66
keywordRegexOnly(lowerText, lowerKeyword) ==
    wordRegexMatches(lowerText, lowerKeyword) # {}

keywordArgsSwapped(lowerText, lowerKeyword) ==
    \/ wordRegexMatches(lowerKeyword, lowerText) # {}
    \/ includes(lowerKeyword, lowerText)

keywordMatches(lowerText, lowerKeyword) ==
    LET exactMatches == wordRegexMatches(lowerText, lowerKeyword)
        partialMatch == includes(lowerText, lowerKeyword)
    IN  (exactMatches # {}) \/ partialMatch

\* the value handed to foundKeywords.push on line 67
foundEntryFromText(keyword, text) ==
    LET n == Len(keyword)
        first == CHOOSE i \in 0..(Len(text) - n) :
                    /\ toLowerCase(SubSeq(text, i + 1, i + n)) = toLowerCase(keyword)
                    /\ \A j \in 0..(i - 1) :
                          toLowerCase(SubSeq(text, j + 1, j + n)) # toLowerCase(keyword)
    IN  SubSeq(text, first + 1, first + n)

foundEntry(keyword, text) == keyword

\* Array.prototype.push
pushTwice(arr, e) == Append(Append(arr, e), e)

unshift(arr, e) == <<e>> \o arr

push(arr, e) == Append(arr, e)

\* the body of the forEach callback (lines 61-84), applied to the keyword at i
categoriesBeforeMatch(acc, i, text, lowerText) ==
    LET keyword == vehicleKeywords[i]
        lowerKeyword == toLowerCase(keyword)
        cats == applyCategoryRules(acc.keywordCategories, lowerKeyword, 1)
    IN  IF keywordMatches(lowerText, lowerKeyword)
        THEN [foundKeywords |-> push(acc.foundKeywords, foundEntry(keyword, text)),
              keywordCategories |-> cats]
        ELSE [foundKeywords |-> acc.foundKeywords, keywordCategories |-> cats]

visitKeyword(acc, i, text, lowerText) ==
    LET keyword == vehicleKeywords[i]
        lowerKeyword == toLowerCase(keyword)
    IN  IF keywordMatches(lowerText, lowerKeyword)
        THEN [foundKeywords |-> push(acc.foundKeywords, foundEntry(keyword, text)),
              keywordCategories |->
                  applyCategoryRules(acc.keywordCategories, lowerKeyword, 1)]
        ELSE acc

\* vehicleKeywords.forEach(...) over the indices lo..hi, in increasing order
\* (the range is split in halves; the left half is folded first, and its
\* accumulator is evaluated before the right half starts)
RECURSIVE forEachKeyword(_, _, _, _, _)
forEachKeyword(acc, lo, hi, text, lowerText) ==
    IF lo > hi THEN acc
    ELSE IF lo = hi THEN visitKeyword(acc, lo, text, lowerText)
    ELSE LET mid == (lo + hi) \div 2
             left == forEachKeyword(acc, lo, mid, text, lowerText)
         IN  IF Len(left.foundKeywords) >= 0
             THEN forEachKeyword(left, mid + 1, hi, text, lowerText)
             ELSE left

\* [...new Set(arr)]: the first occurrence of each element, in order
uniqueInOrder(arr) ==
    LET firsts == { i \in 1..Len(arr) : \A j \in 1..(i - 1) : arr[j] # arr[i] }
        nth(n) == CHOOSE i \in firsts : Cardinality({ j \in firsts : j < i }) = n - 1
    IN  [n \in 1..Cardinality(firsts) |-> arr[nth(n)]]

\* text.toLowerCase() is a TypeError for a value that is not a string
advancedKeywordSearch(text) ==
    IF text.type # "string" THEN Threw("TypeError")
    ELSE LET lowerText == toLowerCase(text.val)
             acc == forEachKeyword([foundKeywords |-> <<>>, keywordCategories |-> <<>>],
                                   1, Len(vehicleKeywords), text.val, lowerText)
         IN  Returned([foundKeywords |-> uniqueInOrder(acc.foundKeywords),
                       categories    |-> acc.keywordCategories,
                       totalMatches  |-> Len(acc.foundKeywords)])

(* ---------- searchKeywords: the substring-only scan of a keyword list -- *)
\* keywords.forEach(...) over the indices lo..hi, in increasing order
RECURSIVE scanRange(_, _, _, _, _)
scanRange(keywords, lo, hi, lowerText, found) ==
    IF lo > hi THEN found
    ELSE IF lo = hi
         THEN (IF includes(lowerText, toLowerCase(keywords[lo]))
               THEN Append(found, keywords[lo]) ELSE found)
    ELSE LET mid == (lo + hi) \div 2
             left == scanRange(keywords, lo, mid, lowerText, found)
         IN  IF Len(left) >= 0
             THEN scanRange(keywords, mid + 1, hi, lowerText, left)
             ELSE left

searchKeywords(keywords, text) ==
    IF text.type # "string" THEN Threw("TypeError")
    ELSE Returned(scanRange(keywords, 1, Len(keywords), toLowerCase(text.val), <<>>))

(* ------------------------------ JSON.parse ----------------------------- *)
\* \s of a regular expression, String.prototype.trim and JSON white space,
\* over the modelled alphabet
Whitespace == {" ", "\t", "\n", "\r"}

\* a decoded JSON value: t is its type, s the text of a scalar, m the members
\* of an object (<<key, value>>) or the elements of an array (<<"", value>>)
JsonScalar(t, s) == [t |-> t, s |-> s, m |-> <<>>]
JsonCompound(t, m) == [t |-> t, s |-> "", m |-> m]

ParseFail == [ok |-> FALSE, next |-> 0]
ParseOk(v, next) == [ok |-> TRUE, value |-> v, next |-> next]

\* first offset at or after i that holds no white space (Len(s) + 1 if none)
skipWhitespace(s, i) ==
    CHOOSE j \in i..(Len(s) + 1) :
        /\ j = Len(s) + 1 \/ CharAt(s, j) \notin Whitespace
        /\ \A k \in i..(j - 1) : CharAt(s, k) \in Whitespace

startsWith(s, i, prefix) ==
    i + Len(prefix) - 1 <= Len(s) /\ SubSeq(s, i, i + Len(prefix) - 1) = prefix

\* a string literal opening at i: up to the next quote; a raw control
\* character ends the decoding (escape sequences are outside the alphabet)
parseString(s, i) ==
    IF ~startsWith(s, i, "\"") THEN ParseFail
    ELSE LET closers == { j \in (i + 1)..Len(s) : CharAt(s, j) = "\"" }
         IN  IF closers = {} THEN ParseFail
             ELSE LET close == CHOOSE j \in closers : \A k \in closers : j <= k
                      body  == SubSeq(s, i + 1, close - 1)
                  IN  IF \E k \in 1..Len(body) :
                            CharAt(body, k) \in {"\t", "\n", "\r", "\\"}
                      THEN ParseFail
                      ELSE ParseOk(JsonScalar("string", body), close + 1)

\* an integer literal starting at i
parseNumber(s, i) ==
    LET stop == CHOOSE j \in i..(Len(s) + 1) :
                    /\ j = Len(s) + 1 \/ CharAt(s, j) \notin Chars(Digits)
                    /\ \A k \in i..(j - 1) : CharAt(s, k) \in Chars(Digits)
        digits == SubSeq(s, i, stop - 1)
    IN  IF stop = i \/ (Len(digits) > 1 /\ CharAt(digits, 1) = "0") THEN ParseFail
        ELSE ParseOk(JsonScalar("number", digits), stop)

\* obj[key] = value while an object literal is decoded: a repeated key keeps
\* its place and takes the later value
setMember(members, key, value) ==
    IF \E n \in 1..Len(members) : members[n][1] = key
    THEN [n \in 1..Len(members) |->
             IF members[n][1] = key THEN <<key, value>> ELSE members[n]]
    ELSE Append(members, <<key, value>>)

RECURSIVE parseValue(_, _)
RECURSIVE parseMembers(_, _, _)
RECURSIVE parseElements(_, _, _)

\* the members of an object after its opening brace or after a comma
parseMembers(s, i, members) ==
    LET key == parseString(s, skipWhitespace(s, i))
    IN  IF ~key.ok THEN ParseFail
        ELSE LET colon == skipWhitespace(s, key.next)
             IN  IF ~startsWith(s, colon, ":") THEN ParseFail
                 ELSE LET val == parseValue(s, colon + 1)
                      IN  IF ~val.ok THEN ParseFail
                          ELSE LET sofar == setMember(members, key.value.s, val.value)
                                   after == skipWhitespace(s, val.next)
                               IN  IF startsWith(s, after, ",")
                                   THEN parseMembers(s, after + 1, sofar)
                                   ELSE IF startsWith(s, after, "}")
                                        THEN ParseOk(JsonCompound("object", sofar), after + 1)
                                        ELSE ParseFail

\* the elements of an array after its opening bracket or after a comma
parseElements(s, i, elements) ==
    LET val == parseValue(s, i)
    IN  IF ~val.ok THEN ParseFail
        ELSE LET sofar == Append(elements, <<"", val.value>>)
                 after == skipWhitespace(s, val.next)
             IN  IF startsWith(s, after, ",")
                 THEN parseElements(s, after + 1, sofar)
                 ELSE IF startsWith(s, after, "]")
                      THEN ParseOk(JsonCompound("array", sofar), after + 1)
                      ELSE ParseFail

\* one JSON value, white space before it allowed
parseValue(s, i) ==
    LET at == skipWhitespace(s, i)
    IN  IF startsWith(s, at, "{")
        THEN (IF startsWith(s, skipWhitespace(s, at + 1), "}")
              THEN ParseOk(JsonCompound("object", <<>>), skipWhitespace(s, at + 1) + 1)
              ELSE parseMembers(s, at + 1, <<>>))
        ELSE IF startsWith(s, at, "[")
        THEN (IF startsWith(s, skipWhitespace(s, at + 1), "]")
              THEN ParseOk(JsonCompound("array", <<>>), skipWhitespace(s, at + 1) + 1)
              ELSE parseElements(s, at + 1, <<>>))
        ELSE IF startsWith(s, at, "\"") THEN parseString(s, at)
        ELSE IF startsWith(s, at, "true") THEN ParseOk(JsonScalar("literal", "true"), at + 4)
        ELSE IF startsWith(s, at, "false") THEN ParseOk(JsonScalar("literal", "false"), at + 5)
        ELSE IF startsWith(s, at, "null") THEN ParseOk(JsonScalar("literal", "null"), at + 4)
        ELSE parseNumber(s, at)

\* JSON.parse: the whole text is one value, or a SyntaxError
JSONparse(s) ==
    LET r == parseValue(s, 1)
    IN  IF r.ok /\ skipWhitespace(s, r.next) = Len(s) + 1
        THEN Returned(r.value)
        ELSE Threw("SyntaxError")

(* -------------------------- parseGeminiResponse ------------------------ *)
\* the units of s at the offsets of keep, in order (built by halves)
RECURSIVE keepUnits(_, _, _, _)
keepUnits(s, keep, lo, hi) ==
    IF lo > hi THEN ""
    ELSE IF lo = hi THEN (IF lo \in keep THEN CharAt(s, lo) ELSE "")
    ELSE LET mid == (lo + hi) \div 2
         IN  keepUnits(s, keep, lo, mid) \o keepUnits(s, keep, mid + 1, hi)

\* offsets at which a global regular expression `fence\s*` matches s: the
\* leftmost matches that do not overlap.  Two matches can overlap only
\* inside a run of the fence's last character when the fence is that
\* character repeated, where every Len(fence)-th offset of the run matches.
fenceMatches(s, fence) ==
    LET n == Len(fence)
        candidates == { i \in 1..Len(s) : startsWith(s, i, fence) }
        runStart(i) == CHOOSE j \in 1..i :
                          /\ \A k \in j..i : k \in candidates
                          /\ (j = 1 \/ (j - 1) \notin candidates)
    IN  { i \in candidates : (i - runStart(i)) % n = 0 }

\* s.replace(/fence\s*/, ''): without the g flag only the first match goes
stripFirstFence(s, fence) ==
    LET n == Len(fence)
        all == fenceMatches(s, fence)
        starts == { m \in all : \A k \in all : m <= k }
        removed(i) == \E m \in starts :
                         /\ m <= i
                         /\ \A k \in (m + n)..i : CharAt(s, k) \in Whitespace
    IN  keepUnits(s, { i \in 1..Len(s) : ~removed(i) }, 1, Len(s))

\* s.replace(/fence\s*/g, '')
stripFence(s, fence) ==
    LET n == Len(fence)
        starts == fenceMatches(s, fence)
        removed(i) == \E m \in starts :
                         /\ m <= i
                         /\ \A k \in (m + n)..i : CharAt(s, k) \in Whitespace
    IN  keepUnits(s, { i \in 1..Len(s) : ~removed(i) }, 1, Len(s))

\* String.prototype.trim
trim(s) ==
    LET inner == { i \in 1..Len(s) : CharAt(s, i) \notin Whitespace }
    IN  IF inner = {} THEN ""
        ELSE SubSeq(s, CHOOSE i \in inner : \A k \in inner : i <= k,
                       CHOOSE j \in inner : \A k \in inner : k <= j)

\* the grave accent cannot be written in a string of this language: the
\* modelled texts spell it ~, so a code fence is ~~~
Fence == "~~~"

\* line 96
cleanText(responseText) ==
    trim(stripFence(stripFence(responseText, Fence \o "json"), Fence))

\* cleanText.match(/\{[\s\S]*\}/): from the first opening brace to the last
\* closing brace after it, or null
jsonMatch(s) ==
    LET opens == { i \in 1..Len(s) : CharAt(s, i) = "{" }
    IN  IF opens = {} THEN NULL
        ELSE LET open == CHOOSE i \in opens : \A k \in opens : i <= k
                 closes == { j \in (open + 1)..Len(s) : CharAt(s, j) = "}" }
             IN  IF closes = {} THEN NULL
                 ELSE Str(SubSeq(s, open, CHOOSE j \in closes : \A k \in closes : k <= j))

\* the caught error rethrown as it is
unprefixed(message) == message

\* the Error of the outer catch (line 109)
FailedToParse(message) == "Failed to parse AI response: " \o message

\* lines 94-111
parseGeminiResponse(responseText) ==
    IF responseText.type # "string"
    THEN Threw(FailedToParse("Cannot read properties of undefined (reading 'replace')"))
    ELSE LET clean == cleanText(responseText.val)
             direct == JSONparse(clean)
         IN  IF direct.kind = "return" THEN direct
             ELSE LET found == jsonMatch(clean)
                  IN  IF found.type = "null"
                      THEN Threw(FailedToParse("No JSON object found in response"))
                      ELSE LET second == JSONparse(found.val)
                           IN  IF second.kind = "return" THEN second
                               ELSE Threw(FailedToParse("SyntaxError"))

(* --------------------------- analyzeWithGemini ------------------------- *)
\* obj[name] of a decoded value: the member, or undefined
getMember(v, name) ==
    IF v.t = "object" /\ \E n \in 1..Len(v.m) : v.m[n][1] = name
    THEN v.m[CHOOSE n \in 1..Len(v.m) : v.m[n][1] = name][2]
    ELSE JsonScalar("undefined", "")

\* the own enumerable properties that {...analysis} copies
spreadMembers(v) ==
    IF v.t = "object" THEN v.m
    ELSE IF v.t = "array"
         THEN [n \in 1..Len(v.m) |-> <<CharAt(Digits, n), v.m[n][2]>>]
         ELSE IF v.t = "string"
              THEN [n \in 1..Len(v.s) |-> <<CharAt(Digits, n), JsonScalar("string", CharAt(v.s, n))>>]
              ELSE <<>>

RECURSIVE setMembers(_, _, _)
setMembers(members, more, n) ==
    IF n > Len(more) THEN members
    ELSE setMembers(setMember(members, more[n][1], more[n][2]), more, n + 1)

AnalysisFailed(message) == "AI analysis failed: " \o message

\* lines 113-150, given how model.generateContent settled: it threw, or
\* response.text() is the returned value
analyzeWithGemini(generated) ==
    IF generated.kind = "throw" THEN Threw(AnalysisFailed(generated.error))
    ELSE LET analysis == parseGeminiResponse(generated.value)
         IN  IF analysis.kind = "throw" THEN Threw(AnalysisFailed(analysis.error))
             ELSE Returned(JsonCompound("object",
                      setMembers(<< <<"success", JsonScalar("literal", "true")>> >>,
                                 spreadMembers(analysis.value), 1)))

(* -------------------- the rule-based classifier ------------------------ *)
\* The classifier of the rule-based revision is modelled from section 4.2
\* of the specification.  The wording of the canned messages is not part of
\* the contract: an entry of a message table is named by its field and its
\* category.
Canned(field, category) == field \o ":" \o category

\* the placeholder of specificIssues when no keyword matched
GenericIssue == Canned("specificIssues", "other")

\* the most entries specificIssues lists
MaxIssues == 5

toUpperChar ==
    [c \in Chars(LowerAlpha) |->
        CharAt(UpperAlpha, CHOOSE i \in 1..Len(LowerAlpha) : CharAt(LowerAlpha, i) = c)]

\* the first unit in upper case, the rest as it is
Capitalize(s) ==
    IF Len(s) = 0 THEN s
    ELSE (IF CharAt(s, 1) \in DOMAIN toUpperChar THEN toUpperChar[CharAt(s, 1)] ELSE CharAt(s, 1))
         \o SubSeq(s, 2, Len(s))

issueLine(keyword) == Capitalize(keyword) \o " issue detected"

\* every matched keyword rendered, without the cap
uncappedIssues(found) ==
    IF found = <<>> THEN <<GenericIssue>>
    ELSE [i \in 1..Len(found) |-> issueLine(found[i])]

specificIssuesOf(found) ==
    IF found = <<>> THEN <<GenericIssue>>
    ELSE [i \in 1..(IF Len(found) < MaxIssues THEN Len(found) ELSE MaxIssues)
             |-> issueLine(found[i])]

\* category -> (escalation substrings -> severity), and the default
severityTable ==
    [brake        |-> [substrings |-> {"noise", "failure"},       escalated |-> "high",   default |-> "medium"],
     engine       |-> [substrings |-> {"failure", "overheating"}, escalated |-> "high",   default |-> "medium"],
     tire         |-> [substrings |-> {"flat", "wear"},           escalated |-> "medium", default |-> "low"],
     electrical   |-> [substrings |-> {"battery", "failure"},     escalated |-> "medium", default |-> "low"],
     transmission |-> [substrings |-> {"slipping", "failure"},    escalated |-> "high",   default |-> "medium"]]

\* a matched keyword is one of the substrings
escalatesOnWholeKeyword(found, substrings) ==
    \E i \in 1..Len(found) : found[i] \in substrings

\* a matched keyword contains one of the substrings
escalates(found, substrings) ==
    \E i \in 1..Len(found) : \E sub \in substrings : includes(found[i], sub)

lastCategory(categories) ==
    IF categories = <<>> THEN "other" ELSE categories[Len(categories)]

\* "other", or the first category in trigger order
problemTypeOf(categories) ==
    IF categories = <<>> THEN "other" ELSE categories[1]

severityMediumDefault(matchResult) ==
    LET c == problemTypeOf(matchResult.categories)
    IN  IF c \notin DOMAIN severityTable THEN "medium"
        ELSE IF escalates(matchResult.foundKeywords, severityTable[c].substrings)
             THEN severityTable[c].escalated
             ELSE severityTable[c].default

severityOf(matchResult) ==
    LET c == problemTypeOf(matchResult.categories)
    IN  IF c \notin DOMAIN severityTable THEN "low"
        ELSE IF escalates(matchResult.foundKeywords, severityTable[c].substrings)
             THEN severityTable[c].escalated
             ELSE severityTable[c].default

\* MatchResult -> DiagnosticClassification
classify(matchResult) ==
    [mainProblem    |-> Canned("mainProblem", problemTypeOf(matchResult.categories)),
     problemType    |-> problemTypeOf(matchResult.categories),
     severity       |-> severityOf(matchResult),
     specificIssues |-> specificIssuesOf(matchResult.foundKeywords),
     recommendation |-> Canned("recommendation", problemTypeOf(matchResult.categories))]

(* ------------------------------ inputs --------------------------------- *)
\* fragments of speech a transcript is put together from
Pieces == {
    "brake noise", "ENGINE MISFIRE", "Wheel Alignment", "BRAKE PEDAL",
    "flat tire", "battery dead", "fuse blown", "warning light",
    "suspension noise", "strut failure",
    " ", "\t", "s", " issue" }

RECURSIVE concat(_)
concat(ps) == IF ps = <<>> THEN "" ELSE Head(ps) \o concat(Tail(ps))

Transcripts ==
    { concat(ps) : ps \in UNION { [1..n -> Pieces] : n \in 0..MaxPieces } }

\* values a caller can hand to the matcher
TextValues == { Str(t) : t \in Transcripts } \cup { NULL, UNDEFINED, Num("42") }

\* values of transcript.text in a transcription the provider completed
TranscriptTexts == { Str(t) : t \in Transcripts } \cup { NULL }

\* n consecutive phrases of the list from position start, as a driver lists them
RECURSIVE keywordRun(_, _)
keywordRun(start, n) ==
    IF n = 0 THEN ""
    ELSE IF n = 1 THEN vehicleKeywords[start]
    ELSE vehicleKeywords[start] \o ", " \o keywordRun(start + 1, n - 1)

\* transcripts handed to the matcher and then to the classifier
RunTexts ==
    { Str(keywordRun(r[1], r[2])) :
        r \in { q \in (1..Len(vehicleKeywords)) \X (0..MaxRun) :
                  q[1] + q[2] - 1 <= Len(vehicleKeywords) } }

\* how model.generateContent settles in a request: it rejects, or
\* response.text() is one of these texts
AIResponses == {
    "{\"problemType\":\"brake\",\"specificIssues\":[\"worn pads\"]}",
    "~~~json\n{\"problemType\":\"tire\",\"specificIssues\":[]}\n~~~",
    "Analysis: {\"specificIssues\":[\"noise\"]} end",
    "{\"problemType\":\"other\"}",
    "I cannot analyse this." }

GeneratedOutcomes == { Threw("fetch failed") } \cup { Returned(Str(r)) : r \in AIResponses }

\* what analyzeWithGemini can hand back to the handler
AnalysisOutcomes == { analyzeWithGemini(g) : g \in GeneratedOutcomes }

\* fragments an AI response is put together from
ResponsePieces == {
    "{\"a\":1}", "{ \"b\" : {\"c\":[2]} }", "{\"k\":\"~~~ x\"}",
    "Result: ", "}", "~~~json\n", "~~~", "\n" }

ResponseTexts ==
    { concat(ps) : ps \in UNION { [1..n -> ResponsePieces] : n \in 0..MaxParts } }

\* values of response.text() handed to parseGeminiResponse
ResponseValues == { Str(r) : r \in ResponseTexts } \cup { UNDEFINED }

\* code-fence wrappers: what precedes and what follows the wrapped text
Wrappers == {
    <<"~~~json\n", "\n~~~">>, <<"~~~json", "~~~">>,
    <<"~~~\n", "\n~~~">>,     <<"~~~", "~~~">>,
    <<" ~~~json \n", "\n ~~~ \n">>, <<"\n~~~ ", " ~~~ ">> }

wrap(w, t) == w[1] \o t \o w[2]

(* ----------------------------- state ----------------------------------- *)
VARIABLES
    text,           \* the argument of the matcher call under test
    searchResult,   \* outcome of advancedKeywordSearch(text)
    scanResult,     \* outcome of searchKeywords over the same list and text
    pc,             \* position of the /process-recording handler
    tempFile,       \* TRUE while the handler's temporary file exists
    transcription,  \* what transcribeAudio returned
    keywordResults, \* outcome of the handler's advancedKeywordSearch call
    responses,      \* the responses sent for the request, in order
    transcribeCalls,\* calls of transcribeAudio made for the request
    analyzeCalls,   \* calls of analyzeWithGemini made for the request
    analysis,       \* how the handler's analyzeWithGemini call settled
    cleanupError,   \* TRUE once the finally block has logged "Cleanup error:"
    responseText,   \* the argument of the parseGeminiResponse call under test
    parseResult,    \* outcome of parseGeminiResponse(responseText)
    fencedResult,   \* the wrapper used and the outcome for the wrapped text
    analysisResult, \* outcome of analyzeWithGemini given responseText
    classification, \* outcome of the classifier for searchResult
    now,            \* the value of Date.now()
    tmp,            \* the files of /tmp, by the Date.now() value in their name
    keywordList,    \* the value of vehicleKeywords while the server runs
    scopes,         \* the variables of each handler invocation's closure
    inflight,       \* each request: position, uploaded body, response, and
                    \* what transcribeAudio read and returned for it
    memo,           \* advancedKeywordSearch and analyzeWithGemini on the
                    \* inputs of the requests, evaluated once
    stage,          \* position of the ffmpeg-based handler
    inputVideo,     \* TRUE while uploads/input-<ms>.webm exists
    outputAudio,    \* TRUE while output/recording-<ms>.mp3 exists
    cleanupTimer,   \* TRUE while the setTimeout of the end handler is pending
    job,            \* transcription, keywordResults and analysis of the handler
    posted,         \* the responses sent to the POST, in order
    downloads,      \* the answers of GET /download/recording-<ms>.mp3, in order
    state,          \* the useState values of the component of App.jsx
    refs,           \* mediaRecorderRef, streamRef and timerRef of the component
    sessions,       \* each startRecording call: its position, the isRecording
                    \* of its closure, its stream, MediaRecorder and interval,
                    \* and whether its timer callback has called stopRecording
    upload          \* the blob of the axios.post in flight, 0 when none is

vars == <<text, searchResult, scanResult, pc, tempFile, transcription,
          keywordResults, responses, transcribeCalls, analyzeCalls, analysis,
          cleanupError,
          responseText, parseResult, fencedResult, analysisResult,
          classification,
          now, tmp, keywordList, scopes, inflight, memo,
          stage, inputVideo, outputAudio, cleanupTimer, job, posted, downloads,
          state, refs, sessions, upload>>

matcherVars == <<text, searchResult, scanResult>>
handlerVars == <<pc, tempFile, transcription, keywordResults, responses,
                 transcribeCalls, analyzeCalls, analysis, cleanupError>>
parserVars == <<responseText, parseResult, fencedResult, analysisResult>>
classifierVars == <<classification>>
serverVars == <<now, tmp, keywordList, scopes, inflight, memo>>
ffmpegVars == <<stage, inputVideo, outputAudio, cleanupTimer, job, posted, downloads>>
appVars == <<state, refs, sessions, upload>>

\* transcription before transcribeAudio has resolved
NoTranscription == [success |-> FALSE, text |-> UNDEFINED, error |-> ""]

\* { success: false, error: error.message } of lines 165-168
TranscriptionFailure(message) == [success |-> FALSE, text |-> UNDEFINED, error |-> message]

\* { success: true, text: transcript.text, ... } of lines 160-164
TranscriptionSuccess(t) == [success |-> TRUE, text |-> t, error |-> ""]

HandlerIdle ==
    /\ pc = "idle"
    /\ tempFile = FALSE
    /\ transcription = NoTranscription
    /\ keywordResults = NotCalled
    /\ responses = <<>>
    /\ transcribeCalls = 0
    /\ analyzeCalls = 0
    /\ analysis = NotCalled
    /\ cleanupError = FALSE

MatcherIdle ==
    /\ text = UNDEFINED
    /\ searchResult = NotCalled
    /\ scanResult = NotCalled

ParserIdle ==
    /\ responseText = UNDEFINED
    /\ parseResult = NotCalled
    /\ fencedResult = NotCalled
    /\ analysisResult = NotCalled

ClassifierIdle == classification = NotCalled

Requests == 1..MaxRequests

\* no file of that name in /tmp
Absent == [owner |-> 0, audio |-> UNDEFINED]

\* the variables of a handler invocation before any of them is assigned
NoScope == [tempFilePath |-> 0, transcription |-> NoTranscription,
            keywordResults |-> NotCalled, analysis |-> NotCalled]

NotReceived == [pc |-> "idle", buffer |-> UNDEFINED, uploaded |-> UNDEFINED,
                heard |-> NoTranscription, res |-> <<>>]

NoRequests ==
    /\ now = 0
    /\ tmp = [ms \in 0..MaxClock |-> Absent]
    /\ keywordList = vehicleKeywords
    /\ scopes = [r \in Requests |-> NoScope]
    /\ inflight = [r \in Requests |-> NotReceived]

ServerIdle ==
    /\ NoRequests
    /\ memo = NotCalled

NoJob == [transcription |-> NoTranscription, keywordResults |-> NotCalled,
          analysis |-> NotCalled]

FfmpegIdle ==
    /\ stage = "idle"
    /\ inputVideo = FALSE
    /\ outputAudio = FALSE
    /\ cleanupTimer = FALSE
    /\ job = NoJob
    /\ posted = <<>>
    /\ downloads = <<>>

\* the calls of startRecording, numbered in the order of the clicks
Sessions == 1..MaxSessions

\* a call of startRecording that was not made yet
NoSession == [pc |-> "idle", isRecording |-> FALSE, stream |-> "none",
              recorder |-> "none", timer |-> "none", autoStop |-> FALSE,
              size |-> "none"]

\* the useState initial values of lines 5-12; null is 0, a blob is the
\* number of the startRecording call that recorded it, and an analysis is
\* the number of the blob it was computed from
InitialState == [isProcessing |-> FALSE, analysis |-> 0, isRecording |-> FALSE,
                 recordedBlob |-> 0, recordingTime |-> 0]

\* useRef(null) of lines 13-16, each ref naming the call that assigned it
InitialRefs == [mediaRecorderRef |-> 0, streamRef |-> 0, timerRef |-> 0]

AppIdle ==
    /\ state = InitialState
    /\ refs = InitialRefs
    /\ sessions = [s \in Sessions |-> NoSession]
    /\ upload = 0

(* ------------------- the matcher, called on its own -------------------- *)
InitMatcher ==
    /\ text \in TextValues
    /\ searchResult = NotCalled
    /\ scanResult = NotCalled
    /\ HandlerIdle
    /\ ParserIdle
    /\ ClassifierIdle
    /\ ServerIdle
    /\ FfmpegIdle
    /\ AppIdle

CallAdvancedKeywordSearch ==
    /\ searchResult.kind = "none"
    /\ searchResult' = advancedKeywordSearch(text)
    /\ UNCHANGED <<text, scanResult>>
    /\ UNCHANGED handlerVars
    /\ UNCHANGED parserVars
    /\ UNCHANGED classifierVars
    /\ UNCHANGED serverVars
    /\ UNCHANGED ffmpegVars
    /\ UNCHANGED appVars

CallSearchKeywords ==
    /\ scanResult.kind = "none"
    /\ scanResult' = searchKeywords(vehicleKeywords, text)
    /\ UNCHANGED <<text, searchResult>>
    /\ UNCHANGED handlerVars
    /\ UNCHANGED parserVars
    /\ UNCHANGED classifierVars
    /\ UNCHANGED serverVars
    /\ UNCHANGED ffmpegVars
    /\ UNCHANGED appVars

NextMatcher == CallAdvancedKeywordSearch \/ CallSearchKeywords

SpecMatcher == InitMatcher /\ [][NextMatcher]_vars

(* ---------------- parseGeminiResponse, called on its own --------------- *)
InitParser ==
    /\ responseText \in ResponseValues
    /\ parseResult = NotCalled
    /\ fencedResult = NotCalled
    /\ analysisResult = NotCalled
    /\ MatcherIdle
    /\ HandlerIdle
    /\ ClassifierIdle
    /\ ServerIdle
    /\ FfmpegIdle
    /\ AppIdle

CallParseGeminiResponse ==
    /\ parseResult.kind = "none"
    /\ parseResult' = parseGeminiResponse(responseText)
    /\ UNCHANGED <<responseText, fencedResult, analysisResult>>
    /\ UNCHANGED matcherVars
    /\ UNCHANGED handlerVars
    /\ UNCHANGED classifierVars
    /\ UNCHANGED serverVars
    /\ UNCHANGED ffmpegVars
    /\ UNCHANGED appVars

\* the same text handed over inside a code fence
CallParseFenced ==
    /\ fencedResult.kind = "none"
    /\ responseText.type = "string"
    /\ \E w \in Wrappers :
          fencedResult' = [kind |-> "called", wrapper |-> w,
                           outcome |-> parseGeminiResponse(Str(wrap(w, responseText.val)))]
    /\ UNCHANGED <<responseText, parseResult, analysisResult>>
    /\ UNCHANGED matcherVars
    /\ UNCHANGED handlerVars
    /\ UNCHANGED classifierVars
    /\ UNCHANGED serverVars
    /\ UNCHANGED ffmpegVars
    /\ UNCHANGED appVars

\* analyzeWithGemini when response.text() is responseText
CallAnalyzeWithGemini ==
    /\ analysisResult.kind = "none"
    /\ analysisResult' = analyzeWithGemini(Returned(responseText))
    /\ UNCHANGED <<responseText, parseResult, fencedResult>>
    /\ UNCHANGED matcherVars
    /\ UNCHANGED handlerVars
    /\ UNCHANGED classifierVars
    /\ UNCHANGED serverVars
    /\ UNCHANGED ffmpegVars
    /\ UNCHANGED appVars

NextParser == CallParseGeminiResponse \/ CallParseFenced \/ CallAnalyzeWithGemini

SpecParser == InitParser /\ [][NextParser]_vars

(* --------------------- POST /process-recording ------------------------- *)
\* res.json(...) without status(500): the status stays 200
ServerErrorStatusOk(message) ==
    [status |-> 200, error |-> "Server error", message |-> message]

\* a 500 that does not pass error.message on
ServerErrorWithoutMessage(message) ==
    [status |-> 500, error |-> "Server error", message |-> "Server error"]

\* res.status(500).json(...) of the outer catch (lines 250-255)
ServerError(message) == [status |-> 500, error |-> "Server error", message |-> message]

TranscriptionFailed(message) == "Transcription failed: " \o message

\* the keywordSearch object of the response (lines 228-234)
keywordMatch(totalMatches) == totalMatches > 0

keywordSearchField(kr) ==
    [foundKeywords      |-> kr.foundKeywords,
     categories         |-> kr.categories,
     totalKeywordsFound |-> kr.totalMatches,
     keywordMatch       |-> keywordMatch(kr.totalMatches),
     totalMatches       |-> kr.totalMatches]

\* the finally block (lines 239-248): the file is unlinked, or unlinkSync
\* throws, the error is logged and the file stays
CleanupOutcomes == { FALSE, TRUE }

\* no unlinkSync at all: the file stays as it is
keepFile(exists, threw) == exists

\* lines 241-243: whether the file exists after
\* if (fs.existsSync(tempFilePath)) fs.unlinkSync(tempFilePath), given
\* whether unlinkSync threw
unlinkIfExists(exists, threw) == exists /\ threw

\* the finally block, run once the try block has completed or thrown
Cleanup ==
    \E threw \in CleanupOutcomes :
        /\ tempFile' = unlinkIfExists(tempFile, threw)
        /\ cleanupError' = threw

Init ==
    /\ MatcherIdle
    /\ HandlerIdle
    /\ ParserIdle
    /\ ClassifierIdle
    /\ ServerIdle
    /\ FfmpegIdle
    /\ AppIdle

\* lines 183-197: no file is a 400; otherwise the upload is written to /tmp
\* and transcribeAudio is called and awaited
ReceiveRequest ==
    /\ pc = "idle"
    /\ \E hasFile, written \in BOOLEAN :
          IF ~hasFile
          THEN /\ written
               /\ responses' = Append(responses, [status |-> 400, error |-> "No recording received"])
               /\ pc' = "done"
               /\ UNCHANGED <<tempFile, transcribeCalls>>
          ELSE IF ~written
          THEN \* fs.writeFileSync throws on line 192, outside the inner try
               /\ responses' = Append(responses, ServerError("ENOSPC: no space left on device, write"))
               /\ pc' = "done"
               /\ UNCHANGED <<tempFile, transcribeCalls>>
          ELSE /\ tempFile' = TRUE
               /\ transcribeCalls' = transcribeCalls + 1
               /\ pc' = "transcribing"
               /\ UNCHANGED responses
    /\ UNCHANGED <<transcription, keywordResults, analyzeCalls, analysis, cleanupError>>
    /\ UNCHANGED matcherVars
    /\ UNCHANGED parserVars
    /\ UNCHANGED classifierVars
    /\ UNCHANGED serverVars
    /\ UNCHANGED ffmpegVars
    /\ UNCHANGED appVars

\* lines 153-169 and 197-211: transcribeAudio resolves; the handler runs on to
\* the call of analyzeWithGemini, or throws into finally and the outer catch
TranscriptionResolves ==
    /\ pc = "transcribing"
    /\ \E tr \in { TranscriptionSuccess(t) : t \in TranscriptTexts }
                    \cup { TranscriptionFailure("upload failed") } :
          /\ transcription' = tr
          /\ IF ~tr.success
             THEN \* Error(`Transcription failed: ${transcription.error}`), line 200
                  /\ Cleanup
                  /\ responses' = Append(responses, ServerError(TranscriptionFailed(tr.error)))
                  /\ pc' = "done"
                  /\ UNCHANGED <<keywordResults, analyzeCalls>>
             ELSE IF tr.text.type # "string"
             THEN \* the TypeError of transcription.text.length on line 203
                  /\ Cleanup
                  /\ responses' = Append(responses,
                        ServerError("Cannot read properties of null (reading 'length')"))
                  /\ pc' = "done"
                  /\ UNCHANGED <<keywordResults, analyzeCalls>>
             ELSE /\ keywordResults' = advancedKeywordSearch(tr.text)
                  /\ analyzeCalls' = analyzeCalls + 1
                  /\ pc' = "analyzing"
                  /\ UNCHANGED <<tempFile, responses, cleanupError>>
    /\ UNCHANGED <<transcribeCalls, analysis>>
    /\ UNCHANGED matcherVars
    /\ UNCHANGED parserVars
    /\ UNCHANGED classifierVars
    /\ UNCHANGED serverVars
    /\ UNCHANGED ffmpegVars
    /\ UNCHANGED appVars

\* the analysis object of the response (lines 217-235)
analysisField(an, kr) ==
    [transcription  |-> transcription.text.val,
     mainProblem    |-> getMember(an, "mainProblem"),
     problemType    |-> getMember(an, "problemType"),
     specificIssues |-> getMember(an, "specificIssues"),
     severity       |-> getMember(an, "severity"),
     recommendation |-> getMember(an, "recommendation"),
     keywordSearch  |-> keywordSearchField(kr)]

\* lines 211-248: analyzeWithGemini settles; the response is built and sent,
\* the finally block removes the temporary file
AnalysisSettles ==
    /\ pc = "analyzing"
    /\ \E an \in AnalysisOutcomes :
          /\ analysis' = an
          /\ IF an.kind = "throw"
             THEN responses' = Append(responses, ServerError(an.error))
             ELSE IF getMember(an.value, "specificIssues").t = "undefined"
             THEN \* the TypeError of analysis.specificIssues.length on line 226
                  responses' = Append(responses,
                     ServerError("Cannot read properties of undefined (reading 'length')"))
             ELSE LET fields == analysisField(an.value, keywordResults.value)
                  IN  responses' = Append(responses,
                        [status |-> 200, success |-> TRUE,
                         transcription |-> fields.transcription,
                         keywordSearch |-> fields.keywordSearch,
                         analysis |-> fields])
    /\ Cleanup
    /\ pc' = "done"
    /\ UNCHANGED <<transcription, keywordResults, transcribeCalls, analyzeCalls>>
    /\ UNCHANGED matcherVars
    /\ UNCHANGED parserVars
    /\ UNCHANGED classifierVars
    /\ UNCHANGED serverVars
    /\ UNCHANGED ffmpegVars
    /\ UNCHANGED appVars

Next == ReceiveRequest \/ TranscriptionResolves \/ AnalysisSettles

Spec == Init /\ [][Next]_vars

(* ------------- the matcher followed by the classifier ------------------ *)
InitClassifier ==
    /\ text \in RunTexts
    /\ searchResult = NotCalled
    /\ scanResult = NotCalled
    /\ classification = NotCalled
    /\ HandlerIdle
    /\ ParserIdle
    /\ ServerIdle
    /\ FfmpegIdle
    /\ AppIdle

CallClassify ==
    /\ searchResult.kind = "return"
    /\ classification.kind = "none"
    /\ classification' = Returned(classify(searchResult.value))
    /\ UNCHANGED matcherVars
    /\ UNCHANGED handlerVars
    /\ UNCHANGED parserVars
    /\ UNCHANGED serverVars
    /\ UNCHANGED ffmpegVars
    /\ UNCHANGED appVars

NextClassifier == CallAdvancedKeywordSearch \/ CallClassify

SpecClassifier == InitClassifier /\ [][NextClassifier]_vars

(* -------- POST /process-recording, several requests in flight --------- *)
\* what is said in an uploaded recording
BrakeSpeech == Str("brake noise")

EngineSpeech == Str("engine misfire, flat tire")

Speech == { BrakeSpeech, EngineSpeech }

\* advancedKeywordSearch on each of these transcripts
searchOf == [t \in Speech |-> advancedKeywordSearch(t)]

\* how analyzeWithGemini settles for a request in flight
ServerAnalyses ==
    { analyzeWithGemini(Threw("fetch failed")),
      analyzeWithGemini(Returned(Str("{\"problemType\":\"brake\",\"specificIssues\":[\"worn pads\"]}"))),
      analyzeWithGemini(Returned(Str("{\"problemType\":\"other\"}"))) }

\* one set of variables for the module instead of one for each invocation
moduleScope(r) == 1

\* the const and let bindings of a handler invocation belong to that
\* invocation (lines 189-214)
closure(r) == r

\* vehicleKeywords.reverse(): the list is turned round in place
listAfterReverse(list) == [i \in 1..Len(list) |-> list[Len(list) + 1 - i]]

\* vehicleKeywords.forEach(...) of line 60 leaves the array as it is
listAfterForEach(list) == list

InitServer ==
    /\ NoRequests
    /\ memo = [search |-> searchOf, analyses |-> ServerAnalyses]
    /\ MatcherIdle
    /\ HandlerIdle
    /\ ParserIdle
    /\ classification = NotCalled
    /\ FfmpegIdle
    /\ AppIdle

ServerFrame ==
    /\ UNCHANGED matcherVars
    /\ UNCHANGED handlerVars
    /\ UNCHANGED parserVars
    /\ UNCHANGED classifierVars
    /\ UNCHANGED ffmpegVars
    /\ UNCHANGED appVars

\* what the finally block of lines 239-248 leaves of the file at path
tmpAfterCleanup(path, threw) ==
    [tmp EXCEPT ![path] = IF unlinkIfExists(tmp[path].owner # 0, threw) THEN @ ELSE Absent]

\* lines 183-197: no file is a 400; otherwise the buffer is written to
\* /tmp/audio-<Date.now()>.webm and transcribeAudio is called
ServeReceive(r) ==
    /\ inflight[r].pc = "idle"
    /\ IF r = 1 THEN TRUE ELSE inflight[r - 1].pc # "idle"
    /\ \E buffer \in Speech \cup { UNDEFINED } :
          IF buffer = UNDEFINED
          THEN /\ inflight' = [inflight EXCEPT ![r].pc = "done",
                                  ![r].res = <<[status |-> 400, error |-> "No recording received"]>>]
               /\ UNCHANGED <<tmp, scopes>>
          ELSE /\ tmp' = [tmp EXCEPT ![now] = [owner |-> r, audio |-> buffer]]
               /\ scopes' = [scopes EXCEPT ![closure(r)].tempFilePath = now]
               /\ inflight' = [inflight EXCEPT ![r].pc = "uploading", ![r].buffer = buffer]
    /\ UNCHANGED <<now, keywordList, memo>>
    /\ ServerFrame

\* line 155: assemblyClient.files.upload reads the file at tempFilePath; a
\* missing file rejects, transcribeAudio returns the failure, and the
\* handler throws into finally and the outer catch
ServeUpload(r) ==
    /\ inflight[r].pc = "uploading"
    /\ LET path == scopes[closure(r)].tempFilePath
           failure == TranscriptionFailure("ENOENT: no such file or directory")
       IN  IF tmp[path].owner = 0
           THEN /\ scopes' = [scopes EXCEPT ![closure(r)].transcription = failure]
                /\ inflight' = [inflight EXCEPT ![r].pc = "done", ![r].heard = failure,
                                   ![r].res = <<ServerError(TranscriptionFailed(failure.error))>>]
           ELSE /\ inflight' = [inflight EXCEPT ![r].pc = "transcribing",
                                   ![r].uploaded = tmp[path].audio]
                /\ UNCHANGED scopes
    /\ UNCHANGED <<now, tmp, keywordList, memo>>
    /\ ServerFrame

\* lines 156-168 and 197-211: the transcript of the uploaded audio arrives,
\* or the provider fails
ServeTranscribed(r) ==
    /\ inflight[r].pc = "transcribing"
    /\ \E completed \in BOOLEAN :
          IF completed
          THEN LET tr == TranscriptionSuccess(inflight[r].uploaded)
               IN  /\ scopes' = [scopes EXCEPT ![closure(r)].transcription = tr,
                                    ![closure(r)].keywordResults = memo.search[tr.text]]
                   /\ keywordList' = listAfterForEach(keywordList)
                   /\ inflight' = [inflight EXCEPT ![r].pc = "analyzing", ![r].heard = tr]
                   /\ UNCHANGED tmp
          ELSE LET tr == TranscriptionFailure("upload failed")
               IN  /\ scopes' = [scopes EXCEPT ![closure(r)].transcription = tr]
                   /\ inflight' = [inflight EXCEPT ![r].pc = "done", ![r].heard = tr,
                                      ![r].res = <<ServerError(TranscriptionFailed(tr.error))>>]
                   /\ \E threw \in CleanupOutcomes :
                         tmp' = tmpAfterCleanup(scopes[closure(r)].tempFilePath, threw)
                   /\ UNCHANGED keywordList
    /\ UNCHANGED <<now, memo>>
    /\ ServerFrame

\* lines 211-248: analyzeWithGemini settles, the response is built from the
\* invocation's variables and sent, and the finally block removes the file
ServeAnalyzed(r) ==
    /\ inflight[r].pc = "analyzing"
    /\ \E an \in memo.analyses :
          LET scope == scopes[closure(r)]
              response ==
                 IF an.kind = "throw" THEN ServerError(an.error)
                 ELSE IF getMember(an.value, "specificIssues").t = "undefined"
                      THEN ServerError("Cannot read properties of undefined (reading 'length')")
                      ELSE [status |-> 200, success |-> TRUE,
                            transcription |-> scope.transcription.text.val,
                            keywordSearch |-> keywordSearchField(scope.keywordResults.value)]
          IN  /\ scopes' = [scopes EXCEPT ![closure(r)].analysis = an]
              /\ inflight' = [inflight EXCEPT ![r].pc = "done", ![r].res = <<response>>]
    /\ \E threw \in CleanupOutcomes :
          tmp' = tmpAfterCleanup(scopes[closure(r)].tempFilePath, threw)
    /\ UNCHANGED <<now, keywordList, memo>>
    /\ ServerFrame

\* a millisecond passes
ClockTick ==
    /\ now < MaxClock
    /\ now' = now + 1
    /\ UNCHANGED <<tmp, keywordList, scopes, inflight, memo>>
    /\ ServerFrame

NextServer ==
    \/ \E r \in Requests : ServeReceive(r)
    \/ \E r \in Requests : ServeUpload(r)
    \/ \E r \in Requests : ServeTranscribed(r)
    \/ \E r \in Requests : ServeAnalyzed(r)
    \/ ClockTick

SpecServer == InitServer /\ [][NextServer]_vars

(* ------- POST /process-recording through ffmpeg, GET /download --------- *)
\* transcript.text of a transcription the provider completed
ConvertedTexts == Speech \cup { NULL }

\* res.status(500).json(...) of the end handler's catch (lines 537-543)
AnalysisFailedResponse(message) ==
    [status |-> 500, success |-> FALSE, message |-> "Recording Analysis Failed",
     error |-> message]

\* the outcomes of the two unlinkSync calls of lines 546-553: none throws,
\* the first throws (the second is skipped), or the second throws
TimerOutcomes == { "unlinked", "first threw", "second threw" }

InitFfmpeg ==
    /\ FfmpegIdle
    /\ AppIdle
    /\ MatcherIdle
    /\ HandlerIdle
    /\ ParserIdle
    /\ classification = NotCalled
    /\ ServerIdle

FfmpegFrame ==
    /\ UNCHANGED matcherVars
    /\ UNCHANGED handlerVars
    /\ UNCHANGED parserVars
    /\ UNCHANGED classifierVars
    /\ UNCHANGED serverVars
    /\ UNCHANGED appVars

\* lines 487-499 and 568: no file is a 400; a failing writeFileSync is the
\* 500 of the outer catch; otherwise the input is saved and ffmpeg started
PostRecording ==
    /\ stage = "idle"
    /\ \E hasFile, written \in BOOLEAN :
          IF ~hasFile
          THEN /\ written
               /\ posted' = Append(posted, [status |-> 400, error |-> "No recording received"])
               /\ stage' = "done"
               /\ UNCHANGED inputVideo
          ELSE IF ~written
          THEN /\ posted' = Append(posted, [status |-> 500, error |-> "Server error"])
               /\ stage' = "done"
               /\ UNCHANGED inputVideo
          ELSE /\ inputVideo' = TRUE
               /\ stage' = "converting"
               /\ UNCHANGED posted
    /\ UNCHANGED <<outputAudio, cleanupTimer, job, downloads>>
    /\ FfmpegFrame

\* the "end" event (line 501): the mp3 is written and transcribeAudio called
FfmpegEnd ==
    /\ stage = "converting"
    /\ outputAudio' = TRUE
    /\ stage' = "transcribing"
    /\ UNCHANGED <<inputVideo, cleanupTimer, job, posted, downloads>>
    /\ FfmpegFrame

\* the "error" event (lines 557-564): the input is unlinked unless that
\* throws, and the request is answered 500
FfmpegError ==
    /\ stage = "converting"
    /\ \E threw \in CleanupOutcomes : inputVideo' = unlinkIfExists(inputVideo, threw)
    /\ posted' = Append(posted, [status |-> 500, error |-> "Conversion failed"])
    /\ stage' = "done"
    /\ UNCHANGED <<outputAudio, cleanupTimer, job, downloads>>
    /\ FfmpegFrame

\* lines 503-510: transcribeAudio resolves; a failure or a text that is not
\* a string ends in the catch of line 537, and the cleanup timer is set
ConvertedTranscribed ==
    /\ stage = "transcribing"
    /\ \E tr \in { TranscriptionSuccess(t) : t \in ConvertedTexts }
                    \cup { TranscriptionFailure("upload failed") } :
          IF ~tr.success
          THEN /\ job' = [job EXCEPT !.transcription = tr]
               /\ posted' = Append(posted, AnalysisFailedResponse(TranscriptionFailed(tr.error)))
               /\ cleanupTimer' = TRUE
               /\ stage' = "answered"
          ELSE LET kr == advancedKeywordSearch(tr.text)
               IN  /\ job' = [job EXCEPT !.transcription = tr, !.keywordResults = kr]
                   /\ IF kr.kind = "throw"
                      THEN /\ posted' = Append(posted, AnalysisFailedResponse(
                                 "Cannot read properties of null (reading 'toLowerCase')"))
                           /\ cleanupTimer' = TRUE
                           /\ stage' = "answered"
                      ELSE /\ stage' = "analyzing"
                           /\ UNCHANGED <<posted, cleanupTimer>>
    /\ UNCHANGED <<inputVideo, outputAudio, downloads>>
    /\ FfmpegFrame

\* the download link of line 515 (one recording is converted here)
outputFileName == "recording-0.mp3"

\* lines 510-555: analyzeWithGemini settles, the request is answered, and
\* the cleanup is scheduled 5000 ms later
ConvertedAnalyzed ==
    /\ stage = "analyzing"
    /\ \E an \in ServerAnalyses :
          /\ job' = [job EXCEPT !.analysis = an]
          /\ posted' = Append(posted,
                IF an.kind = "throw" THEN AnalysisFailedResponse(an.error)
                ELSE IF getMember(an.value, "specificIssues").t = "undefined"
                     THEN AnalysisFailedResponse(
                             "Cannot read properties of undefined (reading 'length')")
                     ELSE [status |-> 200, success |-> TRUE,
                           downloadUrl |-> "/download/" \o outputFileName,
                           keywordSearch |-> keywordSearchField(job.keywordResults.value)])
    /\ cleanupTimer' = TRUE
    /\ stage' = "answered"
    /\ UNCHANGED <<inputVideo, outputAudio, downloads>>
    /\ FfmpegFrame

\* the callback of setTimeout (lines 546-554)
CleanupTimerFires ==
    /\ cleanupTimer
    /\ \E outcome \in TimerOutcomes :
          /\ outcome = "first threw" => inputVideo
          /\ outcome = "second threw" => outputAudio
          /\ inputVideo' = unlinkIfExists(inputVideo, outcome = "first threw")
          /\ outputAudio' = unlinkIfExists(outputAudio, outcome # "unlinked")
    /\ cleanupTimer' = FALSE
    /\ stage' = "done"
    /\ UNCHANGED <<job, posted, downloads>>
    /\ FfmpegFrame

\* the download link of the last response, or "" when none was handed out
HandedOut ==
    IF posted # <<>> /\ posted[Len(posted)].status = 200
    THEN posted[Len(posted)].downloadUrl
    ELSE ""

\* GET /download/:filename (lines 571-578) for the recording's file name
Download ==
    /\ Len(downloads) < MaxDownloads
    /\ downloads' = Append(downloads,
          [url |-> "/download/" \o outputFileName,
           handedOut |-> HandedOut = "/download/" \o outputFileName,
           status |-> IF outputAudio THEN 200 ELSE 404])
    /\ UNCHANGED <<stage, inputVideo, outputAudio, cleanupTimer, job, posted>>
    /\ FfmpegFrame

NextFfmpeg ==
    \/ PostRecording
    \/ FfmpegEnd
    \/ FfmpegError
    \/ ConvertedTranscribed
    \/ ConvertedAnalyzed
    \/ CleanupTimerFires
    \/ Download

SpecFfmpeg == InitFfmpeg /\ [][NextFfmpeg]_vars

(* ------------------ the browser app (frotnend/src/App.jsx) ------------- *)
\* what the await of line 86 and the statements up to line 135 can do: the
\* getUserMedia promise rejects, the MediaRecorder constructor or start()
\* throws after the stream was obtained, or the recorder starts
StartOutcomes == { "denied", "unsupported", "started" }

\* the size of a blob against the limits of lines 41 and 199
BlobSizes == { "fits", "over 4MB" }

InitApp ==
    /\ AppIdle
    /\ MatcherIdle
    /\ HandlerIdle
    /\ ParserIdle
    /\ classification = NotCalled
    /\ ServerIdle
    /\ FfmpegIdle

AppFrame ==
    /\ UNCHANGED matcherVars
    /\ UNCHANGED handlerVars
    /\ UNCHANGED parserVars
    /\ UNCHANGED classifierVars
    /\ UNCHANGED serverVars
    /\ UNCHANGED ffmpegVars

\* the button of lines 350-351 is rendered while recordedBlob is null and
\* calls startRecording while isRecording is false
StartButton == state.recordedBlob = 0 /\ ~state.isRecording

\* the same button calls stopRecording while isRecording is true
StopButton == state.recordedBlob = 0 /\ state.isRecording

\* the buttons of lines 392-424 are rendered while recordedBlob is not null;
\* Analyze Recording is disabled while isProcessing
AnalyzeButton == state.recordedBlob # 0 /\ ~state.isProcessing

NewRecordingButton == state.recordedBlob # 0

\* lines 82-86: a click on Start Recording calls the startRecording of the
\* render on screen, which awaits getUserMedia; the function, and the
\* stopRecording its timer callback will call, see that render's isRecording
PressStart ==
    /\ StartButton
    /\ \E s \in Sessions :
          /\ sessions[s].pc = "idle"
          /\ \A e \in Sessions : e < s => sessions[e].pc # "idle"
          /\ sessions' = [sessions EXCEPT ![s].pc = "getUserMedia",
                                          ![s].isRecording = state.isRecording]
    /\ UNCHANGED <<state, refs, upload>>
    /\ AppFrame

\* line 169: stopRecording acts when the ref holds a recorder and the
\* isRecording of the render that created the function is true
stopRecordingActs(seen) == refs.mediaRecorderRef # 0 /\ seen

\* lines 170-176 on one session: stop() on the recorder of mediaRecorderRef
\* (the stop event is queued), clearInterval on the interval of timerRef,
\* track.stop() on the stream of streamRef
stopped(s) ==
    [sessions[s] EXCEPT
       !.recorder = IF s = refs.mediaRecorderRef /\ @ = "recording" THEN "inactive" ELSE @,
       !.pc = IF s = refs.mediaRecorderRef /\ sessions[s].recorder = "recording"
              THEN "stopping" ELSE @,
       !.timer = IF s = refs.timerRef /\ @ = "running" THEN "cleared" ELSE @,
       !.stream = IF s = refs.streamRef /\ @ = "live" THEN "stopped" ELSE @]

\* lines 168-182, called by a closure that saw isRecording as seen; caller
\* is the session whose timer callback makes the call (line 144), or 0 when
\* the button does
stopRecording(seen, caller) ==
    /\ sessions' = [s \in Sessions |->
                      [(IF stopRecordingActs(seen) THEN stopped(s) ELSE sessions[s])
                          EXCEPT !.autoStop = @ \/ s = caller]]
    /\ state' = IF stopRecordingActs(seen)
                THEN [state EXCEPT !.isRecording = FALSE]
                ELSE state
    /\ UNCHANGED refs

\* lines 86-165: the await of getUserMedia settles and the rest of
\* startRecording runs; the catch of lines 151-164 only sets the message
GetUserMediaSettles(s) ==
    /\ sessions[s].pc = "getUserMedia"
    /\ \E outcome \in StartOutcomes :
          CASE outcome = "denied" ->
                  /\ sessions' = [sessions EXCEPT ![s].pc = "failed"]
                  /\ UNCHANGED <<state, refs>>
            [] outcome = "unsupported" ->
                  /\ sessions' = [sessions EXCEPT ![s].pc = "failed",
                                                  ![s].stream = "live"]
                  /\ refs' = [refs EXCEPT !.streamRef = s]
                  /\ UNCHANGED state
            [] outcome = "started" ->
                  /\ sessions' = [sessions EXCEPT ![s].pc = "recording",
                                                  ![s].stream = "live",
                                                  ![s].recorder = "recording",
                                                  ![s].timer = "running"]
                  /\ refs' = [mediaRecorderRef |-> s, streamRef |-> s, timerRef |-> s]
                  /\ state' = [state EXCEPT !.isRecording = TRUE, !.recordingTime = 0]
    /\ UNCHANGED upload
    /\ AppFrame

\* lines 140-149: the interval of session s fires; at 90 the updater calls
\* the stopRecording of the closure of startRecording and keeps the time
TimerTick(s) ==
    /\ sessions[s].timer = "running"
    /\ IF state.recordingTime >= AutoStopAt
       THEN stopRecording(sessions[s].isRecording, s)
       ELSE /\ state' = [state EXCEPT !.recordingTime = @ + 1]
            /\ UNCHANGED <<sessions, refs>>
    /\ UNCHANGED upload
    /\ AppFrame

\* line 351: a click on Stop Recording calls the stopRecording of the render
\* on screen
PressStop ==
    /\ StopButton
    /\ stopRecording(state.isRecording, 0)
    /\ UNCHANGED upload
    /\ AppFrame

\* lines 123-132 up to the await: the stop event of a stopped recorder runs
\* onstop; a blob within 3.5MB is stored in the same task (lines 43-45 and
\* 128), a larger one waits for the promise of lines 53-78
RecorderFiresStop(s) ==
    /\ sessions[s].pc = "stopping"
    /\ \E large \in BOOLEAN :
          IF large
          THEN /\ sessions' = [sessions EXCEPT ![s].pc = "compressing"]
               /\ UNCHANGED state
          ELSE /\ sessions' = [sessions EXCEPT ![s].pc = "done", ![s].size = "fits"]
               /\ state' = [state EXCEPT !.recordedBlob = s]
    /\ UNCHANGED <<refs, upload>>
    /\ AppFrame

\* lines 71-75 and 127-128: the promise resolves with the canvas blob, or
\* with the recorded blob when toBlob gave null, and onstop stores it
CompressResolves(s) ==
    /\ sessions[s].pc = "compressing"
    /\ \E size \in BlobSizes :
          sessions' = [sessions EXCEPT ![s].pc = "done", ![s].size = size]
    /\ state' = [state EXCEPT !.recordedBlob = s]
    /\ UNCHANGED <<refs, upload>>
    /\ AppFrame

\* lines 192-217: a click on Analyze Recording; a blob over 4MB only gets a
\* message, otherwise the blob of the render on screen is posted
PressAnalyze ==
    /\ AnalyzeButton
    /\ IF sessions[state.recordedBlob].size = "over 4MB"
       THEN UNCHANGED <<state, upload>>
       ELSE /\ state' = [state EXCEPT !.isProcessing = TRUE, !.analysis = 0]
            /\ upload' = state.recordedBlob
    /\ UNCHANGED <<refs, sessions>>
    /\ AppFrame

\* lines 217-247: the post resolves and the analysis of the posted blob is
\* set (lines 229-230), or it rejects (lines 232-244, a message only); the
\* finally block clears isProcessing
UploadSettles ==
    /\ upload # 0
    /\ \E ok \in BOOLEAN :
          state' = [state EXCEPT
                      !.analysis = IF ok THEN upload ELSE @,
                      !.isProcessing = FALSE]
    /\ upload' = 0
    /\ UNCHANGED <<refs, sessions>>
    /\ AppFrame

\* lines 251-256: a click on New Recording
startNewRecording ==
    /\ NewRecordingButton
    /\ state' = [state EXCEPT !.recordedBlob = 0, !.analysis = 0, !.recordingTime = 0]
    /\ UNCHANGED <<refs, sessions, upload>>
    /\ AppFrame

NextApp ==
    \/ PressStart
    \/ \E s \in Sessions : GetUserMediaSettles(s)
    \/ \E s \in Sessions : TimerTick(s)
    \/ PressStop
    \/ \E s \in Sessions : RecorderFiresStop(s)
    \/ \E s \in Sessions : CompressResolves(s)
    \/ PressAnalyze
    \/ UploadSettles
    \/ startNewRecording

SpecApp == InitApp /\ [][NextApp]_vars

(* ======================= properties of the matcher ===================== *)
KeywordSet == { vehicleKeywords[i] : i \in 1..Len(vehicleKeywords) }

Range(seq) == { seq[i] : i \in 1..Len(seq) }

NoRepeats(seq) == \A i, j \in 1..Len(seq) : i # j => seq[i] # seq[j]

\* position of a phrase in the static list
ListIndex(k) == CHOOSE i \in 1..Len(vehicleKeywords) : vehicleKeywords[i] = k

\* first offset at which sub occurs in s
FirstOffset(s, sub) ==
    CHOOSE i \in 0..(Len(s) - Len(sub)) :
        /\ SubSeq(s, i + 1, i + Len(sub)) = sub
        /\ \A j \in 0..(i - 1) : SubSeq(s, j + 1, j + Len(sub)) # sub

\* the categories whose rule the phrase k satisfies
Triggered(k) ==
    { categoryRules[r].category : r \in
        { q \in 1..Len(categoryRules) :
            \E sub \in categoryRules[q].substrings : includes(toLowerCase(k), sub) } }

\* list position of the first phrase of found that triggers category c
FirstTrigger(found, c) ==
    LET at == { ListIndex(k) : k \in { f \in Range(found) : c \in Triggered(f) } }
    IN  CHOOSE i \in at : \A j \in at : i <= j

SearchReturned == searchResult.kind = "return"

Found == searchResult.value.foundKeywords

Categories == searchResult.value.categories

EmptyMatch == [foundKeywords |-> <<>>, categories |-> <<>>, totalMatches |-> 0]

\* C1: for every transcript, foundKeywords holds only phrases of the static
\* vehicleKeywords list and holds no phrase more than once.
C1_FoundSubsetNoDuplicates ==
    SearchReturned => (Range(Found) \subseteq KeywordSet /\ NoRepeats(Found))

C1_Witness ==
    /\ SearchReturned
    /\ Len(Found) >= 2
    /\ text.val # toLowerCase(text.val)

\* C2: a keyword is in foundKeywords exactly when the lower-cased transcript
\* contains the lower-cased keyword as a substring; the word-boundary regex
\* never changes the outcome, so the result is that of the substring-only
\* scan of the same list, whatever the letter case of the transcript
\* ("BRAKE PEDAL issue" yields "brake pedal").
C2_SubstringEquivalence ==
    /\ SearchReturned =>
          /\ \A k \in KeywordSet :
                (k \in Range(Found))
                    <=> includes(toLowerCase(text.val), toLowerCase(k))
          /\ includes(text.val, "BRAKE PEDAL issue") => "brake pedal" \in Range(Found)
    /\ (SearchReturned /\ scanResult.kind = "return") => Found = scanResult.value

C2_Witness ==
    /\ SearchReturned
    /\ scanResult.kind = "return"
    /\ includes(text.val, "BRAKE PEDAL")
    /\ "brake pedal" \in Range(Found)
    /\ wordRegexMatches(toLowerCase(text.val), "brake pedal") = {}

\* C3: categories lists each triggered category exactly once, in the order
\* in which the matched keywords, scanned in static-list order, first trigger
\* them; a transcript containing "wheel alignment" has "tire", and one that
\* matches exactly "brake noise" and "engine misfire" yields brake, engine.
C3_CategoriesFirstTriggerOrder ==
    SearchReturned =>
        /\ NoRepeats(Categories)
        /\ Range(Categories) = UNION { Triggered(k) : k \in Range(Found) }
        /\ \A i, j \in 1..Len(Categories) :
              i < j => FirstTrigger(Found, Categories[i]) < FirstTrigger(Found, Categories[j])
        /\ includes(toLowerCase(text.val), "wheel alignment") => "tire" \in Range(Categories)
        /\ Range(Found) = {"brake noise", "engine misfire"}
              => Categories = <<"brake", "engine">>

C3_Witness ==
    /\ SearchReturned
    /\ Found = <<"brake noise", "engine misfire">>
    /\ Categories = <<"brake", "engine">>
    /\ FirstOffset(toLowerCase(text.val), "engine misfire")
          < FirstOffset(toLowerCase(text.val), "brake noise")

\* C4: a transcript that matches a keyword containing "suspension", "shock"
\* or "strut" has the category "suspension".
C4_SuspensionCategory ==
    SearchReturned =>
        ((\E k \in Range(Found) :
             \E sub \in {"suspension", "shock", "strut"} : includes(toLowerCase(k), sub))
          => "suspension" \in Range(Categories))

\* C5: a transcript that matches a keyword containing "electrical",
\* "battery", "light" or "fuse" has the category "electrical".
C5_ElectricalCategory ==
    SearchReturned =>
        ((\E k \in Range(Found) :
             \E sub \in {"electrical", "battery", "light", "fuse"} :
                 includes(toLowerCase(k), sub))
          => "electrical" \in Range(Categories))

C8_FoundInListOrder ==
    SearchReturned =>
        /\ \A i \in 1..Len(Found) :
              \E n \in 1..Len(vehicleKeywords) : Found[i] = vehicleKeywords[n]
        /\ \A i, j \in 1..Len(Found) :
              (i < j /\ Found[i] \in KeywordSet /\ Found[j] \in KeywordSet)
                  => ListIndex(Found[i]) < ListIndex(Found[j])

C8_Witness ==
    /\ SearchReturned
    /\ Len(Found) = 2
    /\ ~includes(text.val, Found[1])
    /\ FirstOffset(toLowerCase(text.val), Found[2])
          < FirstOffset(toLowerCase(text.val), Found[1])

\* C9: the empty transcript and every whitespace-only transcript give
\* foundKeywords = [], categories = [] and totalMatches = 0.
WhitespaceOnly(s) == \A i \in 1..Len(s) : CharAt(s, i) \in {" ", "\t", "\n", "\r"}

C9_BlankTranscriptEmptyMatch ==
    (searchResult.kind # "none" /\ text.type = "string" /\ WhitespaceOnly(text.val))
        => searchResult = Returned(EmptyMatch)

C9_Witness ==
    /\ searchResult = Returned(EmptyMatch)
    /\ text.type = "string"
    /\ Len(text.val) >= 2
    /\ WhitespaceOnly(text.val)

\* C10: advancedKeywordSearch never throws: for null, undefined and other
\* non-string input it returns the empty-match result.
C10_NeverThrows ==
    searchResult.kind # "none" =>
        /\ searchResult.kind = "return"
        /\ text.type # "string" => searchResult.value = EmptyMatch

(* ======================= properties of the handler ===================== *)
\* C7: totalMatches equals the length of the de-duplicated foundKeywords; in
\* every successful response totalKeywordsFound and totalMatches both equal
\* that length and keywordMatch is true exactly when foundKeywords is
\* non-empty.
C7_TotalMatchesIsFoundLength ==
    /\ keywordResults.kind = "return" =>
          keywordResults.value.totalMatches = Len(keywordResults.value.foundKeywords)
    /\ \A i \in 1..Len(responses) :
          responses[i].status = 200 =>
              LET ks == responses[i].keywordSearch
              IN  /\ ks.totalKeywordsFound = Len(ks.foundKeywords)
                  /\ ks.totalMatches = Len(ks.foundKeywords)
                  /\ ks.keywordMatch <=> (ks.foundKeywords # <<>>)

C7_Witness ==
    /\ Len(responses) = 1
    /\ responses[1].status = 200
    /\ Len(responses[1].keywordSearch.foundKeywords) = 2
    /\ responses[1].keywordSearch.totalMatches = 2
    /\ responses[1].keywordSearch.keywordMatch

(* ================= properties of parseGeminiResponse =================== *)
ParseReturned == parseResult.kind = "return"

\* J decodes as a JSON object
DecodesAsObject(j) ==
    /\ JSONparse(j).kind = "return"
    /\ JSONparse(j).value.t = "object"

\* C14: for every text J that decodes as a JSON object, parseGeminiResponse
\* returns the same value for J alone and for J inside code-fence markers,
\* with or without a language tag and surrounding whitespace.
C14_FenceWrappingIgnored ==
    (/\ parseResult.kind # "none"
     /\ fencedResult.kind = "called"
     /\ responseText.type = "string"
     /\ DecodesAsObject(responseText.val))
    => /\ ParseReturned
       /\ fencedResult.outcome = parseResult

C14_Witness ==
    /\ responseText = Str("{\"k\":\"~~~ x\"}\n")
    /\ DecodesAsObject(responseText.val)
    /\ fencedResult.kind = "called"
    /\ fencedResult.wrapper = <<"~~~", "~~~">>
    /\ ParseReturned
    /\ fencedResult.outcome = parseResult
    /\ getMember(parseResult.value, "k") = JsonScalar("string", "x")

\* the first top-level {...} object of s: the value that starts at the first
\* opening brace
HasBrace(s) == \E i \in 1..Len(s) : CharAt(s, i) = "{"

FirstBrace(s) == CHOOSE i \in 1..Len(s) :
                    /\ CharAt(s, i) = "{"
                    /\ \A k \in 1..(i - 1) : CharAt(s, k) # "{"

HasFirstObject(s) == HasBrace(s) /\ parseValue(s, FirstBrace(s)).ok

FirstObject(s) == parseValue(s, FirstBrace(s)).value

\* C15: when direct decoding of the fence-stripped response fails and the
\* text holds a top-level {...} object, parseGeminiResponse returns the first
\* such object, whatever text follows it.
C15_FirstObjectExtracted ==
    (/\ parseResult.kind # "none"
     /\ responseText.type = "string"
     /\ JSONparse(cleanText(responseText.val)).kind = "throw"
     /\ HasFirstObject(cleanText(responseText.val)))
    => parseResult = Returned(FirstObject(cleanText(responseText.val)))

\* neither direct decoding nor the extracted object yields a value
NoJsonValue(rt) ==
    \/ rt.type # "string"
    \/ /\ JSONparse(cleanText(rt.val)).kind = "throw"
       /\ \/ jsonMatch(cleanText(rt.val)).type = "null"
          \/ JSONparse(jsonMatch(cleanText(rt.val)).val).kind = "throw"

\* C16: if neither direct decoding nor object extraction yields a value,
\* parseGeminiResponse throws an error whose message starts with "Failed to
\* parse AI response", and analyzeWithGemini throws "AI analysis failed: ..."
\* instead of returning a result with success: true.
C16_ParseFailureIsThrown ==
    NoJsonValue(responseText) =>
        /\ parseResult.kind # "none" =>
              /\ parseResult.kind = "throw"
              /\ startsWith(parseResult.error, 1, "Failed to parse AI response")
        /\ analysisResult.kind # "none" =>
              /\ analysisResult.kind = "throw"
              /\ startsWith(analysisResult.error, 1,
                            "AI analysis failed: Failed to parse AI response")

C16_Witness ==
    /\ responseText = Str("Result: }\n")
    /\ NoJsonValue(responseText)
    /\ parseResult = Threw("Failed to parse AI response: No JSON object found in response")
    /\ analysisResult.kind = "throw"

(* ================ failure paths of POST /process-recording ============= *)
\* the transcript is empty, whitespace-only or missing
BlankOrMissing(t) == t.type # "string" \/ WhitespaceOnly(t.val)

ErrorStatus(r) == r.status >= 400

ServerFailure(r) == r.status >= 500 /\ r.status <= 599

\* C11: when the transcription succeeds but its text is empty,
\* whitespace-only or missing, the handler treats the transcript as having
\* zero keyword matches and sends no error response because of it.
C11_BlankTranscriptIsZeroMatches ==
    (/\ transcription.success
     /\ BlankOrMissing(transcription.text)
     /\ pc \in {"analyzing", "done"})
    => /\ keywordResults = Returned(EmptyMatch)
       /\ analysis.kind = "none" => \A i \in 1..Len(responses) : ~ErrorStatus(responses[i])

\* the AI provider answered and its text could not be parsed
Unparseable(an) ==
    /\ an.kind = "throw"
    /\ startsWith(an.error, 1, "AI analysis failed: Failed to parse AI response")

\* C12: when the AI response cannot be parsed, the request is still answered
\* with diagnostic fields instead of being failed.
C12_UnparseableResponseStillAnswered ==
    (pc = "done" /\ Unparseable(analysis)) =>
        /\ Len(responses) = 1
        /\ responses[1].status = 200
        /\ responses[1].analysis.problemType.t = "string"
        /\ responses[1].analysis.severity.t = "string"

\* C13: when transcription or AI analysis fails, the response is a 5xx whose
\* message names the failed step; each provider is called at most once for
\* the request, and not at all after a transcription failure in the case of
\* the AI provider.
C13_LabelledFailureNoRetry ==
    /\ transcribeCalls <= 1
    /\ analyzeCalls <= 1
    /\ (pc = "done" /\ transcribeCalls = 1 /\ ~transcription.success) =>
          /\ Len(responses) = 1
          /\ ServerFailure(responses[1])
          /\ startsWith(responses[1].message, 1, "Transcription failed: ")
          /\ analyzeCalls = 0
          /\ analysis = NotCalled
    /\ (pc = "done" /\ analysis.kind = "throw") =>
          /\ Len(responses) = 1
          /\ ServerFailure(responses[1])
          /\ startsWith(responses[1].message, 1, "AI analysis failed: ")

C13_WitnessTranscription ==
    /\ pc = "done"
    /\ transcription = TranscriptionFailure("upload failed")
    /\ responses = <<ServerError("Transcription failed: upload failed")>>
    /\ transcribeCalls = 1
    /\ analyzeCalls = 0

C13_Witness ==
    /\ pc = "done"
    /\ transcription.success
    /\ analysis = Threw("AI analysis failed: fetch failed")
    /\ responses = <<ServerError("AI analysis failed: fetch failed")>>
    /\ transcribeCalls = 1
    /\ analyzeCalls = 1

(* ==================== properties of the classifier ===================== *)
Classified == classification.kind = "return"

Diagnosis == classification.value

\* C17: for a MatchResult with no categories the classifier returns
\* problemType "other" and severity "low", and specificIssues is the single
\* generic placeholder when no keyword matched.
C17_NoCategoryIsOtherLow ==
    (Classified /\ Categories = <<>>) =>
        /\ Diagnosis.problemType = "other"
        /\ Diagnosis.severity = "low"
        /\ Found = <<>> => Diagnosis.specificIssues = <<GenericIssue>>

C17_Witness ==
    /\ text = Str("")
    /\ Classified
    /\ searchResult = Returned(EmptyMatch)
    /\ Diagnosis.problemType = "other"
    /\ Diagnosis.severity = "low"
    /\ Len(Diagnosis.specificIssues) = 1

\* C18: for a MatchResult with at least one category, problemType is the
\* first category in trigger order, and mainProblem and recommendation are
\* the entries of the message tables for that category.
C18_ProblemTypeIsFirstCategory ==
    (Classified /\ Categories # <<>>) =>
        /\ Diagnosis.problemType = Categories[1]
        /\ \A c \in Range(Categories) :
              FirstTrigger(Found, Diagnosis.problemType) <= FirstTrigger(Found, c)
        /\ Diagnosis.mainProblem = Canned("mainProblem", Categories[1])
        /\ Diagnosis.recommendation = Canned("recommendation", Categories[1])

C18_Witness ==
    /\ text = Str("brake warning, engine overheating")
    /\ Classified
    /\ Categories = <<"brake", "engine">>
    /\ Diagnosis.problemType = "brake"
    /\ Diagnosis.mainProblem = "mainProblem:brake"

\* some matched keyword contains one of the substrings
SomeKeywordContains(substrings) ==
    \E k \in Range(Found) : \E sub \in substrings : includes(k, sub)

\* C19: severity follows the per-category escalation table: brake with
\* noise/failure is high, else medium; engine with failure/overheating is
\* high, else medium; tire with flat/wear is medium, else low; electrical
\* with battery/failure is medium, else low; transmission with
\* slipping/failure is high, else medium.
C19_SeverityTable ==
    Classified =>
        LET type == Diagnosis.problemType
            severity == Diagnosis.severity
        IN  /\ type = "brake" =>
                 severity = IF SomeKeywordContains({"noise", "failure"}) THEN "high" ELSE "medium"
            /\ type = "engine" =>
                 severity = IF SomeKeywordContains({"failure", "overheating"}) THEN "high" ELSE "medium"
            /\ type = "tire" =>
                 severity = IF SomeKeywordContains({"flat", "wear"}) THEN "medium" ELSE "low"
            /\ type = "electrical" =>
                 severity = IF SomeKeywordContains({"battery", "failure"}) THEN "medium" ELSE "low"
            /\ type = "transmission" =>
                 severity = IF SomeKeywordContains({"slipping", "failure"}) THEN "high" ELSE "medium"
            /\ (Found = <<"brake failure">> /\ Categories = <<"brake">>) => severity = "high"
            /\ (Found = <<"brake pedal">> /\ Categories = <<"brake">>) => severity = "medium"

C19_Witness ==
    /\ text = Str("brake failure")
    /\ Classified
    /\ Found = <<"brake failure">>
    /\ Categories = <<"brake">>
    /\ Diagnosis.severity = "high"

Min(a, b) == IF a < b THEN a ELSE b

\* C20 as stated: for every MatchResult specificIssues has min(5, number of
\* matched keywords) entries, the first matched keywords in order, each
\* rendered as "<Capitalized keyword> issue detected".
C20_IssuesAreFirstFiveKeywords ==
    Classified =>
        /\ Len(Diagnosis.specificIssues) <= 5
        /\ Len(Diagnosis.specificIssues) = Min(5, Len(Found))
        /\ \A i \in 1..Len(Diagnosis.specificIssues) :
              Diagnosis.specificIssues[i] = Capitalize(Found[i]) \o " issue detected"

\* C20 amended: specificIssues has at most 5 entries; when at least one
\* keyword matched it has min(5, number of matched keywords) entries, the
\* first matched keywords in order, each rendered as "<Capitalized keyword>
\* issue detected"; when none matched it is the single generic placeholder.
C20_IssuesCappedOrPlaceholder ==
    Classified =>
        /\ Len(Diagnosis.specificIssues) <= 5
        /\ Found # <<>> =>
              /\ Len(Diagnosis.specificIssues) = Min(5, Len(Found))
              /\ \A i \in 1..Len(Diagnosis.specificIssues) :
                    Diagnosis.specificIssues[i] = Capitalize(Found[i]) \o " issue detected"
        /\ Found = <<>> => Diagnosis.specificIssues = <<GenericIssue>>

C20_Witness ==
    /\ Classified
    /\ Len(Found) = 8
    /\ Found[1] = "brake pedal"
    /\ Len(Diagnosis.specificIssues) = 5
    /\ Diagnosis.specificIssues[1] = "Brake pedal issue detected"
    /\ Diagnosis.specificIssues[5] = "Brake lines issue detected"

(* ============== responses and cleanup of POST /process-recording ======= *)
Answered == pc = "done"

AnalysisSucceeded == analysis.kind = "return"

\* the response object of lines 214-236 can be built
ResponseBuilds ==
    /\ transcription.text.type = "string"
    /\ AnalysisSucceeded
    /\ getMember(analysis.value, "specificIssues").t # "undefined"

ExactlyOneResponse ==
    /\ Len(responses) <= 1
    /\ Answered <=> Len(responses) = 1

C25_TempFileGoneWhenAnswered ==
    Answered => ~tempFile

\* the response that the outcomes of transcription and analysis call for
AnswerFor(tr, kr, an) ==
    IF ~tr.success THEN ServerError(TranscriptionFailed(tr.error))
    ELSE IF tr.text.type # "string"
         THEN ServerError("Cannot read properties of null (reading 'length')")
         ELSE IF an.kind = "throw" THEN ServerError(an.error)
              ELSE IF getMember(an.value, "specificIssues").t = "undefined"
                   THEN ServerError("Cannot read properties of undefined (reading 'length')")
                   ELSE [status |-> 200, success |-> TRUE,
                         transcription |-> tr.text.val,
                         keywordSearch |-> keywordSearchField(kr.value),
                         analysis |-> analysisField(an.value, kr.value)]

\* C25 amended: once the request has been answered its temporary file no
\* longer exists unless unlinking it threw (the error is logged and
\* swallowed); whether the cleanup failed or not, the response is the one
\* the outcomes of transcription and analysis call for.
C25_TempFileGoneUnlessUnlinkThrew ==
    /\ (Answered /\ ~cleanupError) => ~tempFile
    /\ cleanupError => Answered
    /\ (Answered /\ transcribeCalls = 1) =>
          responses = <<AnswerFor(transcription, keywordResults, analysis)>>

C25_Witness ==
    /\ Answered
    /\ cleanupError
    /\ tempFile
    /\ responses[1].status = 200

(* ============ properties of the requests served together =============== *)
\* the result of advancedKeywordSearch called alone on a transcript
AloneResult(t) ==
    IF t = BrakeSpeech
    THEN [foundKeywords |-> <<"brake noise">>, categories |-> <<"brake">>, totalMatches |-> 1]
    ELSE [foundKeywords |-> <<"engine misfire", "flat tire">>,
          categories |-> <<"engine", "tire">>, totalMatches |-> 2]

NothingReceived == \A r \in Requests : inflight[r].pc = "idle"

AloneResultIsTheMatchers ==
    \A t \in Speech : advancedKeywordSearch(t) = Returned(AloneResult(t))

Succeeded(r) ==
    /\ inflight[r].pc = "done"
    /\ inflight[r].res[1].status = 200

\* C21: however the steps of the requests in flight interleave, the
\* keywordSearch of each response is advancedKeywordSearch applied alone to
\* the transcript that request's own transcription returned.
C21_KeywordSearchIsOwnTranscripts ==
    /\ NothingReceived => AloneResultIsTheMatchers
    /\ \A r \in Requests :
          /\ inflight[r].pc = "analyzing" =>
                scopes[r].keywordResults = Returned(AloneResult(inflight[r].heard.text))
          /\ Succeeded(r) =>
                /\ inflight[r].res[1].transcription = inflight[r].heard.text.val
                /\ inflight[r].res[1].keywordSearch =
                      keywordSearchField(AloneResult(inflight[r].heard.text))

C21_Witness ==
    /\ Succeeded(1)
    /\ inflight[1].heard.text = BrakeSpeech
    /\ inflight[1].res[1].keywordSearch.foundKeywords = <<"brake noise">>
    /\ inflight[2].pc = "analyzing"
    /\ inflight[2].heard.text = EngineSpeech
    /\ scopes[1].tempFilePath # scopes[2].tempFilePath

\* C22: the keyword list is never modified while the server runs, and the
\* keyword result for a transcript is the same whichever requests were
\* served, successfully or not, before it.
C22_KeywordListUnchanged ==
    /\ keywordList = vehicleKeywords
    /\ \A r1, r2 \in Requests :
          (/\ Succeeded(r1)
           /\ Succeeded(r2)
           /\ inflight[r1].heard.text = inflight[r2].heard.text)
          => inflight[r1].res[1].keywordSearch = inflight[r2].res[1].keywordSearch

C22_Witness ==
    /\ inflight[1].pc = "done"
    /\ inflight[1].res[1].status = 500
    /\ Succeeded(2)
    /\ inflight[2].res[1].keywordSearch = keywordSearchField(AloneResult(EngineSpeech))
    /\ keywordList = vehicleKeywords

InFlight(r) == inflight[r].pc \in {"uploading", "transcribing", "analyzing"}

\* C26: two requests in flight never use the same temporary file path: the
\* file a request still has to upload is there and holds its own recording,
\* and what was uploaded for a request is its own recording.
C26_TempPathsNeverShared ==
    /\ \A r1, r2 \in Requests :
          (r1 # r2 /\ InFlight(r1) /\ InFlight(r2))
          => scopes[r1].tempFilePath # scopes[r2].tempFilePath
    /\ \A r \in Requests :
          /\ inflight[r].pc = "uploading" =>
                tmp[scopes[r].tempFilePath] = [owner |-> r, audio |-> inflight[r].buffer]
          /\ inflight[r].pc \in {"transcribing", "analyzing"} =>
                inflight[r].uploaded = inflight[r].buffer

(* ================== properties of the download link ==================== *)
\* C27: a downloadUrl handed out in a successful response names a file that
\* GET /download keeps serving: no request for it is answered 404, and the
\* file is there for as long as the server runs.
C27_DownloadUrlKeepsServing ==
    /\ \A i \in 1..Len(downloads) :
          downloads[i].handedOut => downloads[i].status # 404
    /\ HandedOut # "" => outputAudio

(* ================== properties of the browser app ====================== *)
\* C23: a recording that reaches 90 seconds is stopped without a click on
\* Stop: once the timer callback of a recording session has called
\* stopRecording at recordingTime 90, that session's MediaRecorder is
\* stopped and its interval cleared, and isRecording is false for as long as
\* the session's recorder is the one in mediaRecorderRef.
C23_AutoStopAtNinety ==
    \A s \in Sessions :
        sessions[s].autoStop =>
            /\ sessions[s].recorder = "inactive"
            /\ sessions[s].timer = "cleared"
            /\ refs.mediaRecorderRef = s => ~state.isRecording

\* C28: a displayed analysis belongs to the recording that is held: analysis
\* is null or the analysis of recordedBlob, so a non-null analysis implies a
\* non-null recordedBlob and the response to an upload started before New
\* Recording is never shown.
C28_AnalysisBelongsToHeldBlob ==
    state.analysis # 0 =>
        /\ state.recordedBlob # 0
        /\ state.analysis = state.recordedBlob

\* C29: isRecording and a non-null recordedBlob never hold together, so
\* while a recording is in progress the Stop Recording button is rendered.
C29_NeverRecordingWithBlob ==
    /\ ~(state.isRecording /\ state.recordedBlob # 0)
    /\ state.isRecording => StopButton

live(s) == sessions[s].stream = "live"

recording(s) == sessions[s].recorder = "recording"

running(s) == sessions[s].timer = "running"

\* C30: at most one camera stream is open, at most one MediaRecorder is
\* recording and at most one timer interval is running at any time, and
\* while isRecording is false no interval runs and no stream is open.
C30_AtMostOneSession ==
    /\ \A s1, s2 \in Sessions :
          s1 # s2 => /\ ~(live(s1) /\ live(s2))
                     /\ ~(recording(s1) /\ recording(s2))
                     /\ ~(running(s1) /\ running(s2))
    /\ ~state.isRecording => \A s \in Sessions : ~running(s) /\ ~live(s)

====
